---- MODULE Spec2Model ----
(***************************************************************************)
(* Model of virt-who's SubscriptionManager adapter                         *)
(* (src/manager/subscriptionmanager/subscriptionmanager.py).               *)
(*                                                                         *)
(* Every public method is one action that models the whole call: the       *)
(* connect step, the server round trips, the logging and the put on the    *)
(* manager queue.  What a call did is recorded in op, args, outcome,       *)
(* result, calls and logs, so that properties of one call are state        *)
(* predicates over the state the call leaves behind.                       *)
(***************************************************************************)
EXTENDS Integers, Sequences, FiniteSets, TLC

VARIABLES
    manager_queue,  \* self.manager_queue: None, or Queue when a queue was passed
    sink,           \* content of the queue object (FIFO of events)
    cert_uuid,      \* self.cert_uuid: None or the memoized consumer uuid
    connection,     \* self.connection: None, or the authentication of the session
    env,            \* the world around the adapter: certificate file and server
    nextJob,        \* server side: id the next asynchronous job gets
    inflight,       \* queue consumer: the event taken from the queue, being polled
    op,             \* name of the step that produced this state
    args,           \* arguments of the last call
    outcome,        \* "return", or the class of the exception the call raised
    result,         \* [value |-> v]: what the last call returned
    calls,          \* collaborator calls made by the last call, in order
    logs,           \* log lines written by the last call, in order
    certReads,      \* number of times the certificate was parsed successfully
    done,           \* job ids for which a poll saw state FINISHED
    lost            \* job ids whose poll raised before the state was known

vars == <<manager_queue, sink, cert_uuid, connection, env, nextJob, inflight,
          op, args, outcome, result, calls, logs, certReads, done, lost>>

adapterVars == <<manager_queue, cert_uuid, connection>>
callVars == <<args, outcome, result, calls, logs>>
jobVars == <<inflight, done, lost>>

(***************************************************************************)
(* Bounds of the model.                                                    *)
(***************************************************************************)
MaxGuests == 3
MaxMapGuests == 2
MaxJobs == 2
MaxSink == 1
MaxCertReads == 2

(***************************************************************************)
(* Python values.                                                          *)
(***************************************************************************)
None == "None"
Queue == "Queue"

\* Truth value of a str-or-None, as `if x` and `x and y` compute it.
Truthy(x) == x # None /\ x # ""

\* A nullable, dynamically typed field: isinstance(v, list) reads the type.
PyNull == [type |-> "NoneType", items |-> <<>>]
PyStr == [type |-> "str", items |-> <<>>]
PyList(items) == [type |-> "list", items |-> items]
IsList(v) == v.type = "list"

SeqsUpTo(S, n) == UNION {[1..k -> S] : k \in 0..n}

RECURSIVE Perms(_)
Perms(S) ==
    IF S = {} THEN {<<>>}
    ELSE UNION {{<<x>> \o p : p \in Perms(S \ {x})} : x \in S}

(***************************************************************************)
(* Inputs.                                                                 *)
(***************************************************************************)
cert_file == "cert.pem"
key_file == "key.pem"

cfgCert == [name |-> "cert", rhsm_username |-> None, rhsm_password |-> None,
            owner |-> "owner", env |-> "env"]
cfgUser == [name |-> "user", rhsm_username |-> "admin", rhsm_password |-> "secret",
            owner |-> "owner", env |-> "env"]
cfgHalf == [name |-> "half", rhsm_username |-> "admin", rhsm_password |-> "",
            owner |-> "owner", env |-> "env"]
Configs == {cfgCert, cfgUser, cfgHalf}

\* Guest uuids are strings; the model keeps their rank in string order.
\* Two of the guests share a uuid, so that the order of equal keys shows.
Guests == {[uuid |-> 1, state |-> "running"], [uuid |-> 2, state |-> "running"],
           [uuid |-> 2, state |-> "paused"]}
GuestSeqs == SeqsUpTo(Guests, MaxGuests)

Hosts == {"h1", "h2"}
MapGuests == {g \in Guests : g.state = "running"}
\* Host h1 has up to MaxMapGuests guests, host h2 at most one.
Mappings ==
    UNION {{m \in [D -> SeqsUpTo(MapGuests, MaxMapGuests)] :
                "h2" \in D => Len(m["h2"]) <= 1} : D \in SUBSET Hosts}

JobIds == 1..MaxJobs
ConsumerUuids == {"uuid-A", "uuid-B"}

\* The certificate file: whether os.access grants reading, and what parsing gives.
Certs == {[parses |-> FALSE, CN |-> None]}
            \cup {[parses |-> TRUE, CN |-> u] : u \in ConsumerUuids}
Envs == [certReadable : BOOLEAN, cert : Certs, ping : BOOLEAN,
         async : BOOLEAN, transport : {"ok", "BadStatusLine"}]

Guest_toDict(g) == [guestId |-> g.uuid, state |-> g.state]
toDicts(guests) == [i \in 1..Len(guests) |-> Guest_toDict(guests[i])]

(***************************************************************************)
(* Records of what a call did.                                             *)
(***************************************************************************)
Call(fn, a, ret) == [fn |-> fn, args |-> a, ret |-> ret]
Log(level, fmt, a) == [level |-> level, fmt |-> fmt, args |-> a]
Join(sep, parts) == [sep |-> sep, parts |-> parts]
Event(config, jobId) == <<"newJobStatus", <<config, jobId>>>>
Value(v) == [value |-> v]

CallsIn(cs, fn) == SelectSeq(cs, LAMBDA c : c.fn = fn)
CallsOf(fn) == CallsIn(calls, fn)
LogsOf(fmt) == SelectSeq(logs, LAMBDA l : l.fmt = fmt)

(***************************************************************************)
(* Server responses.                                                       *)
(***************************************************************************)
HostReport(host, guestIds) ==
    [uuid |-> host, guestIds |-> [i \in 1..Len(guestIds) |-> [guestId |-> guestIds[i]]]]

FailedUpdates == {<<>>, <<"e1">>, <<"e1", "e2">>}
UpdatedLists == {<<>>, <<HostReport("h1", <<"g1">>)>>,
                 <<HostReport("h1", <<"g1", "g2">>), HostReport("h2", <<>>)>>}
CreatedValues == {PyNull, PyList(<<>>), PyList(<<HostReport("h2", <<"g2">>)>>)}
ResultDatas == [failedUpdate : FailedUpdates, updated : UpdatedLists,
                created : CreatedValues]

\* The job status as the interface names it, {state, id, resultData}, and the
\* same with a top-level "created" entry (a timestamp, or a list of hosts).
TopCreated == {PyStr, PyList(<<HostReport("h1", <<"g1">>)>>)}
JobBodies ==
    {[state |-> s, resultData |-> PyNull] : s \in {"CREATED", "RUNNING"}}
        \cup {[state |-> "FINISHED", resultData |-> rd] : rd \in ResultDatas}
JobResponses(job_id) ==
    {[state |-> b.state, id |-> job_id, resultData |-> b.resultData] : b \in JobBodies}
        \cup {[state |-> b.state, id |-> job_id, resultData |-> b.resultData,
               created |-> tc] : b \in JobBodies, tc \in TopCreated}

\* Result of a synchronous check-in, and the job an asynchronous one creates.
SyncResult == [failedUpdate |-> <<>>, updated |-> <<>>, created |-> <<>>]
AsyncResult(id) == [id |-> id, state |-> "CREATED"]

(***************************************************************************)
(* SubscriptionManager._connect                                            *)
(***************************************************************************)
\* line 74: credentials are used only when both are truthy
UsesPassword(rhsm_username, rhsm_password) ==
    Truthy(rhsm_username) /\ Truthy(rhsm_password)

\* line 80: os.access(self.cert_file, os.R_OK)
CertAccessUnchecked == TRUE
CertAccess == env.certReadable

_connect(rhsm_username, rhsm_password) ==
    LET userpass == UsesPassword(rhsm_username, rhsm_password)
        dbg == IF userpass
               THEN Log("debug", "Authenticating with RHSM username %s",
                        <<rhsm_username>>)
               ELSE Log("debug", "Authenticating with certificate: %s",
                        <<cert_file>>)
        auth == IF userpass THEN "userpass" ELSE "cert"
        session == Call("UEPConnection", <<auth>>, None)
        ping == Call("ping", <<>>, env.ping)
    IN  IF ~userpass /\ ~CertAccess
        THEN [raised |-> "SubscriptionManagerUnregisteredError",
              connection |-> connection, calls |-> <<>>, logs |-> <<dbg>>]
        ELSE [raised |-> IF env.ping THEN None ELSE "SubscriptionManagerError",
              connection |-> auth, calls |-> <<session, ping>>, logs |-> <<dbg>>]

\* lines 114-118 and 145-149: credentials are passed on only when both are set
ConnectFor(config) ==
    IF Truthy(config.rhsm_username) /\ Truthy(config.rhsm_password)
    THEN _connect(config.rhsm_username, config.rhsm_password)
    ELSE _connect(None, None)

(***************************************************************************)
(* SubscriptionManager.uuid                                                *)
(***************************************************************************)
\* line 178: `if not self.cert_uuid`
NeedsCertReadAlways == TRUE
NeedsCertRead == ~Truthy(cert_uuid)

uuid ==
    IF NeedsCertRead
    THEN LET ok == env.certReadable /\ env.cert.parses
             rd == Call("create_from_file", <<cert_file>>, ok)
         IN  IF ok
             THEN [raised |-> None, value |-> env.cert.CN,
                   cert_uuid |-> env.cert.CN, calls |-> <<rd>>, reads |-> 1]
             ELSE [raised |-> "SubscriptionManagerError", value |-> None,
                   cert_uuid |-> cert_uuid, calls |-> <<rd>>, reads |-> 0]
    ELSE [raised |-> None, value |-> cert_uuid, cert_uuid |-> cert_uuid,
          calls |-> <<>>, reads |-> 0]

UuidCall ==
    LET u == uuid
    IN  /\ NeedsCertRead => certReads < MaxCertReads
        /\ op' = "uuid"
        /\ args' = [none |-> TRUE]
        /\ outcome' = IF u.raised # None THEN u.raised ELSE "return"
        /\ result' = Value(u.value)
        /\ calls' = u.calls
        /\ logs' = <<>>
        /\ cert_uuid' = u.cert_uuid
        /\ certReads' = certReads + u.reads
        /\ UNCHANGED <<manager_queue, sink, connection, env, nextJob, inflight,
                       done, lost>>

(***************************************************************************)
(* SubscriptionManager.sendVirtGuests                                      *)
(***************************************************************************)
\* list.sort(key=lambda item: item.uuid): a stable sort, here by insertion
InsertByUuid(sorted, g) ==
    LET k == Cardinality({j \in 1..Len(sorted) : sorted[j].uuid <= g.uuid})
    IN  SubSeq(sorted, 1, k) \o <<g>> \o SubSeq(sorted, k + 1, Len(sorted))

RECURSIVE InsertionSort(_)
InsertionSort(s) ==
    IF s = <<>> THEN <<>>
    ELSE InsertByUuid(InsertionSort(SubSeq(s, 1, Len(s) - 1)), s[Len(s)])

SortByUuidSkipped(guests) == guests
SortByUuid(guests) == InsertionSort(guests)

sendVirtGuests(guests) ==
    LET c == _connect(None, None)
        sorted == SortByUuid(guests)
        serialized_guests == toDicts(sorted)
        info == Log("info", "Sending domain info: %s", <<serialized_guests>>)
        u == uuid
        upd == Call("updateConsumer", <<u.value, serialized_guests>>, None)
    IN  /\ NeedsCertRead => certReads < MaxCertReads
        /\ op' = "sendVirtGuests"
        /\ args' = [guests |-> guests]
        /\ result' = Value(None)
        /\ connection' = c.connection
        /\ IF c.raised # None
           THEN /\ outcome' = c.raised
                /\ calls' = c.calls
                /\ logs' = c.logs
                /\ UNCHANGED <<cert_uuid, certReads>>
           ELSE IF u.raised # None
           THEN /\ outcome' = u.raised
                /\ calls' = c.calls \o u.calls
                /\ logs' = c.logs \o <<info>>
                /\ UNCHANGED <<cert_uuid, certReads>>
           ELSE /\ outcome' = "return"
                /\ calls' = c.calls \o u.calls \o <<upd>>
                /\ logs' = c.logs \o <<info>>
                /\ cert_uuid' = u.cert_uuid
                /\ certReads' = certReads + u.reads
        /\ UNCHANGED <<manager_queue, sink, env, nextJob, inflight, done, lost>>

(***************************************************************************)
(* SubscriptionManager.hypervisorCheckIn                                   *)
(***************************************************************************)
\* lines 110-112
SerializeMapping(mapping) == [host \in DOMAIN mapping |-> toDicts(mapping[host])]

\* lines 126-129; `order` is the order in which the dict yields its hosts
AsyncShapeFlat(serialized_mapping, order) == serialized_mapping
AsyncShape(serialized_mapping, order) ==
    [hypervisors |->
        [i \in 1..Len(order) |->
            [hypervisorId |-> order[i], guestIds |-> serialized_mapping[order[i]]]]]

\* line 138: what a BadStatusLine of the submission is raised as
CheckInErrorLeaked == "BadStatusLine"
CheckInError == "ManagerError"

\* line 140
ShouldEnqueueNever(is_async) == FALSE
ShouldEnqueue(is_async) == is_async /\ manager_queue # None

\* line 141
JobEventOfCheckIn(config, checkin_result) == Event(config, checkin_result.id)

hypervisorCheckIn(config, mapping, order) ==
    LET serialized_mapping == SerializeMapping(mapping)
        c == ConnectFor(config)
        is_async == env.async
        cap == Call("has_capability", <<"hypervisors_async">>, is_async)
        dbg1 == Log("debug", "Checking if server has capability 'hypervisor_async'", <<>>)
        dbg2 == IF is_async
                THEN Log("debug", "Server has capability 'hypervisors_async'", <<>>)
                ELSE Log("debug", "Server does not have 'hypervisors_async' capability", <<>>)
        payload == IF is_async THEN AsyncShape(serialized_mapping, order)
                   ELSE serialized_mapping
        info == Log("info", "Sending update in hosts-to-guests mapping: %s", <<payload>>)
        interrupted == env.transport = "BadStatusLine"
        response == IF is_async THEN AsyncResult(nextJob) ELSE SyncResult
        submit == Call("hypervisorCheckIn", <<config.owner, config.env, payload>>,
                       IF interrupted THEN PyNull ELSE response)
        returns == c.raised = None /\ ~interrupted
    IN  /\ (returns /\ is_async) => nextJob <= MaxJobs
        /\ op' = "hypervisorCheckIn"
        /\ args' = [config |-> config, mapping |-> mapping]
        /\ connection' = c.connection
        /\ IF c.raised # None
           THEN /\ outcome' = c.raised
                /\ result' = Value(None)
                /\ calls' = c.calls
                /\ logs' = c.logs
                /\ UNCHANGED <<sink, nextJob>>
           ELSE IF interrupted
           THEN /\ outcome' = CheckInError
                /\ result' = Value(None)
                /\ calls' = c.calls \o <<cap, submit>>
                /\ logs' = c.logs \o <<dbg1, dbg2, info>>
                /\ UNCHANGED <<sink, nextJob>>
           ELSE /\ outcome' = "return"
                /\ result' = Value(response)
                /\ calls' = c.calls \o <<cap, submit>>
                /\ logs' = c.logs \o <<dbg1, dbg2, info>>
                /\ nextJob' = IF is_async THEN nextJob + 1 ELSE nextJob
                /\ sink' = IF ShouldEnqueue(is_async)
                           THEN Append(sink, JobEventOfCheckIn(config, response))
                           ELSE sink
        /\ UNCHANGED <<manager_queue, cert_uuid, env, inflight, certReads, done, lost>>

(***************************************************************************)
(* SubscriptionManager.checkJobStatus                                      *)
(***************************************************************************)
\* line 152
JobPendingAlways(job) == TRUE
JobPending(job) == job.state # "FINISHED"

\* line 154
JobEventOfPollRenamed(config, job) == <<"jobStatus", <<config, job.id>>>>
JobEventOfPoll(config, job) == Event(config, job.id)

\* lines 160-161
FailedLines(resultData) ==
    [i \in 1..Len(resultData.failedUpdate) |->
        Log("error", "Error during update list of guests: %s",
            <<resultData.failedUpdate[i]>>)]

\* lines 163-166 and 169-172
HostLines(fmt, hosts) ==
    [i \in 1..Len(hosts) |->
        LET guests == [j \in 1..Len(hosts[i].guestIds) |-> hosts[i].guestIds[j].guestId]
        IN  Log("info", fmt, <<hosts[i].uuid, Join(", ", guests)>>)]

UpdatedFmt == "Updated host %s with guests: [%s]"
CreatedFmt == "Created host: %s with guests: [%s]"
FailedFmt == "Error during update list of guests: %s"

checkJobStatus(config, job_id, job) ==
    LET c == ConnectFor(config)
        dbg == Log("debug", "checking job status\nJob ID: %s", <<job_id>>)
        get == Call("getJob", <<job_id>>, job)
        resultData == job.resultData
        summary == FailedLines(resultData) \o HostLines(UpdatedFmt, resultData.updated)
    IN  /\ op' = "checkJobStatus"
        /\ args' = [config |-> config, job_id |-> job_id]
        /\ connection' = c.connection
        /\ IF c.raised # None
           THEN /\ outcome' = c.raised
                /\ result' = Value(None)
                /\ calls' = c.calls
                /\ logs' = c.logs
                /\ UNCHANGED sink
           ELSE IF JobPending(job)
           THEN /\ calls' = c.calls \o <<get>>
                /\ logs' = c.logs \o <<dbg>>
                /\ IF manager_queue = None
                   THEN \* None has no attribute 'put'
                        /\ outcome' = "AttributeError"
                        /\ result' = Value(None)
                        /\ UNCHANGED sink
                   ELSE /\ outcome' = "return"
                        /\ result' = Value(job)
                        /\ sink' = Append(sink, JobEventOfPoll(config, job))
           ELSE /\ calls' = c.calls \o <<get>>
                /\ UNCHANGED sink
                /\ IF "created" \notin DOMAIN job
                   THEN \* line 167 reads result['created'], not resultData['created']
                        /\ outcome' = "KeyError"
                        /\ result' = Value(None)
                        /\ logs' = c.logs \o <<dbg>> \o summary
                   ELSE /\ outcome' = "return"
                        /\ result' = Value(resultData)
                        /\ logs' = c.logs \o <<dbg>> \o summary
                                    \o (IF IsList(job.created)
                                        THEN HostLines(CreatedFmt, job.created.items)
                                        ELSE <<>>)
        /\ UNCHANGED <<manager_queue, cert_uuid, env, nextJob, certReads>>

(***************************************************************************)
(* The queue's consumer.  It takes one event at a time and polls the job   *)
(* of the event, once for every event taken.  done and lost keep what the  *)
(* polls of a job came to.                                                 *)
(***************************************************************************)
QueueGet ==
    /\ sink # <<>>
    /\ inflight = <<>>
    /\ inflight' = <<Head(sink)>>
    /\ sink' = Tail(sink)
    /\ op' = "get"
    /\ UNCHANGED <<adapterVars, callVars, env, nextJob, certReads, done, lost>>

ConsumerPollOf(config, job_id, Jobs) ==
    \E job \in Jobs :
        LET sawFinished == ConnectFor(config).raised = None /\ job.state = "FINISHED"
        IN  /\ checkJobStatus(config, job_id, job)
            /\ inflight' = <<>>
            /\ done' = IF sawFinished THEN done \cup {job_id} ELSE done
            /\ lost' = IF outcome' # "return" /\ ~sawFinished
                       THEN lost \cup {job_id} ELSE lost

\* A consumer that takes an event and is not followed further.
QueueTake ==
    /\ sink # <<>>
    /\ sink' = Tail(sink)
    /\ op' = "get"
    /\ UNCHANGED <<adapterVars, callVars, env, nextJob, certReads, jobVars>>

(***************************************************************************)
(* The world: the certificate file and the server change between calls.    *)
(***************************************************************************)
SetEnv(e) ==
    /\ e # env
    /\ env' = e
    /\ op' = "env"
    /\ UNCHANGED <<adapterVars, sink, callVars, nextJob, certReads, jobVars>>

CertAccessChange == \E r \in BOOLEAN : SetEnv([env EXCEPT !.certReadable = r])
CertReplace == \E crt \in Certs : SetEnv([env EXCEPT !.cert = crt])
PingChange == \E p \in BOOLEAN : SetEnv([env EXCEPT !.ping = p])
CapabilityChange == \E a \in BOOLEAN : SetEnv([env EXCEPT !.async = a])
TransportChange ==
    \E t \in {"ok", "BadStatusLine"} : SetEnv([env EXCEPT !.transport = t])

(***************************************************************************)
(* Calls made on the adapter, with their arguments.                        *)
(***************************************************************************)
SampleGuests ==
    <<[uuid |-> 2, state |-> "running"], [uuid |-> 1, state |-> "running"]>>
SampleMapping == [h \in {"h1"} |-> SampleGuests]
SampleData ==
    [failedUpdate |-> <<"e1">>, updated |-> <<HostReport("h1", <<"g1">>)>>,
     created |-> PyNull]
SampleJobs(job_id) ==
    {j \in JobResponses(job_id) :
        /\ j.state \in {"RUNNING", "FINISHED"}
        /\ j.state = "FINISHED" => j.resultData = SampleData
        /\ "created" \in DOMAIN j => ~IsList(j.created)}

\* A caller's put finds room in the queue.
Room == manager_queue # None => Len(sink) < MaxSink

SendGuests == \E guests \in GuestSeqs : sendVirtGuests(guests)

SendSample == sendVirtGuests(SampleGuests)

CheckIn ==
    /\ Room
    /\ \E mapping \in Mappings :
          \E order \in Perms(DOMAIN mapping) :
              hypervisorCheckIn(cfgUser, mapping, order)

CheckInSample ==
    /\ Room
    /\ \E config \in Configs : hypervisorCheckIn(config, SampleMapping, <<"h1">>)

CheckInLoop ==
    \E config \in {cfgCert, cfgUser} :
        hypervisorCheckIn(config, SampleMapping, <<"h1">>)

Poll ==
    /\ Room
    /\ \E config \in {cfgCert, cfgUser}, job_id \in JobIds :
          \E job \in JobResponses(job_id) :
              checkJobStatus(config, job_id, job) /\ UNCHANGED jobVars

PollSample ==
    /\ Room
    /\ \E config \in Configs, job_id \in JobIds :
          \E job \in SampleJobs(job_id) :
              checkJobStatus(config, job_id, job) /\ UNCHANGED jobVars

ConsumerPoll ==
    /\ inflight # <<>>
    /\ ConsumerPollOf(inflight[1][2][1], inflight[1][2][2],
                      SampleJobs(inflight[1][2][2]))

(***************************************************************************)
(* Specifications.                                                         *)
(***************************************************************************)
Init ==
    /\ manager_queue \in {None, Queue}
    /\ sink = <<>>
    /\ cert_uuid = None
    /\ connection = None
    /\ env = [certReadable |-> TRUE, cert |-> [parses |-> TRUE, CN |-> "uuid-A"],
              ping |-> TRUE, async |-> TRUE, transport |-> "ok"]
    /\ nextJob = 1
    /\ inflight = <<>>
    /\ op = "init"
    /\ args = [none |-> TRUE]
    /\ outcome = "return"
    /\ result = Value(None)
    /\ calls = <<>>
    /\ logs = <<>>
    /\ certReads = 0
    /\ done = {}
    /\ lost = {}

\* Check-ins and polls against a server whose capability and transport change.
Next ==
    \/ CheckInSample
    \/ PollSample
    \/ QueueTake
    \/ CapabilityChange
    \/ TransportChange
Spec == Init /\ [][Next]_vars

\* Every public method, with a certificate that comes and goes.
NextAuth ==
    \/ SendSample
    \/ CheckInSample
    \/ PollSample
    \/ QueueTake
    \/ CertAccessChange
SpecAuth == Init /\ [][NextAuth]_vars

\* Polls over every job status the server can report.
NextPoll ==
    \/ Poll
    \/ QueueTake
SpecPoll == Init /\ [][NextPoll]_vars

\* Check-ins over every mapping.
NextPayload ==
    \/ CheckIn
    \/ QueueTake
    \/ CapabilityChange
SpecPayload == Init /\ [][NextPayload]_vars

\* Guest reports over every guest list, and the consumer uuid.
NextGuests ==
    \/ SendGuests
    \/ UuidCall
    \/ CertReplace
SpecGuests == Init /\ [][NextGuests]_vars

\* The adapter with a queue, and the consumer that polls what is queued.
InitLoop == Init /\ manager_queue = Queue
NextLoop ==
    \/ CheckInLoop
    \/ QueueGet
    \/ ConsumerPoll
    \/ PingChange
SpecLoop == InitLoop /\ [][NextLoop]_vars


(***************************************************************************)
(* Properties.                                                             *)
(***************************************************************************)
IsPublicCall(o) == o \in {"sendVirtGuests", "hypervisorCheckIn", "checkJobStatus"}
Count(s, x) == Cardinality({i \in 1..Len(s) : s[i] = x})
Outstanding(job_id) ==
    Cardinality({i \in 1..Len(sink \o inflight) : (sink \o inflight)[i][2][2] = job_id})
submittedJobs == 1..(nextJob - 1)

\* C1: a check-in that returns, on an adapter with a queue, puts exactly one
\* event ('newJobStatus', [config, id]) with the config passed and the id of
\* the server's response when the server has the capability hypervisors_async,
\* and puts nothing when it has not.
C1_OneEventPerAsyncCheckIn ==
    [][(op' = "hypervisorCheckIn" /\ outcome' = "return" /\ manager_queue # None)
        => IF CallsIn(calls', "has_capability")[1].ret
           THEN sink' = Append(sink, Event(args'.config, result'.value.id))
           ELSE sink' = sink]_vars

C1_Witness ==
    /\ op = "hypervisorCheckIn"
    /\ outcome = "return"
    /\ manager_queue = Queue
    /\ CallsOf("has_capability")[1].ret
    /\ sink = <<Event(args.config, result.value.id)>>
    /\ args.config = cfgHalf

C3_FinishedNullCreated ==
    (/\ op = "checkJobStatus"
     /\ CallsOf("getJob") # <<>>
     /\ CallsOf("getJob")[1].ret.state = "FINISHED"
     /\ DOMAIN CallsOf("getJob")[1].ret = {"state", "id", "resultData"}
     /\ CallsOf("getJob")[1].ret.resultData.created = PyNull)
    => LET resultData == CallsOf("getJob")[1].ret.resultData
       IN  /\ outcome = "return"
           /\ Len(LogsOf(FailedFmt)) = Len(resultData.failedUpdate)
           /\ Len(LogsOf(UpdatedFmt)) = Len(resultData.updated)
           /\ LogsOf(CreatedFmt) = <<>>
           /\ result.value = resultData

\* C4: the payload a check-in submits is chosen by the capability alone: the
\* mapping {host: [guest_dict, ...]} when hypervisors_async is absent, and
\* {'hypervisors': [{'hypervisorId': host, 'guestIds': [guest_dict, ...]}]}
\* with one entry per host and each host's guests in their order when present.
C4_PayloadShape ==
    (op = "hypervisorCheckIn" /\ CallsOf("hypervisorCheckIn") # <<>>)
    => LET payload == CallsOf("hypervisorCheckIn")[1].args[3]
           M == args.mapping
       IN  IF ~CallsOf("has_capability")[1].ret
           THEN payload = [host \in DOMAIN M |-> toDicts(M[host])]
           ELSE /\ DOMAIN payload = {"hypervisors"}
                /\ Len(payload.hypervisors) = Cardinality(DOMAIN M)
                /\ \A host \in DOMAIN M :
                      \E i \in 1..Len(payload.hypervisors) :
                          payload.hypervisors[i] =
                              [hypervisorId |-> host, guestIds |-> toDicts(M[host])]

C4_Witness ==
    /\ op = "hypervisorCheckIn"
    /\ outcome = "return"
    /\ CallsOf("has_capability")[1].ret
    /\ DOMAIN args.mapping = {"h1", "h2"}
    /\ Len(args.mapping["h1"]) = 2
    /\ args.mapping["h1"][1].uuid > args.mapping["h1"][2].uuid
    /\ CallsOf("hypervisorCheckIn")[1].args[3].hypervisors[1].hypervisorId = "h2"

\* C5: the guest list sendVirtGuests submits is a permutation of the
\* serialized input guests, sorted ascending by uuid, whatever the input order.
C5_GuestsSorted ==
    (op = "sendVirtGuests" /\ CallsOf("updateConsumer") # <<>>)
    => LET sent == CallsOf("updateConsumer")[1].args[2]
           given == toDicts(args.guests)
       IN  /\ Len(sent) = Len(given)
           /\ \A i \in 1..Len(sent) : Count(sent, sent[i]) = Count(given, sent[i])
           /\ \A i, j \in 1..Len(sent) : i < j => sent[i].guestId <= sent[j].guestId

C5_Witness ==
    /\ op = "sendVirtGuests"
    /\ outcome = "return"
    /\ Len(args.guests) = 3
    /\ args.guests[1].uuid > args.guests[3].uuid
    /\ args.guests[2] # args.guests[1]
    /\ CallsOf("updateConsumer")[1].args[2][1].guestId = 1

\* C6: a public call that authenticates by certificate while the certificate
\* file is unreadable raises SubscriptionManagerUnregisteredError before any
\* call to a collaborator: no session, no ping, no capability query, no
\* submission, no job status, and nothing put on the queue.
C6_UnreadableCertIsFatal ==
    [][(/\ IsPublicCall(op')
        /\ ~env.certReadable
        /\ op' # "sendVirtGuests"
              => ~(Truthy(args'.config.rhsm_username)
                     /\ Truthy(args'.config.rhsm_password)))
        => /\ outcome' = "SubscriptionManagerUnregisteredError"
           /\ calls' = <<>>
           /\ connection' = connection
           /\ sink' = sink]_vars

C6_Witness ==
    /\ op = "checkJobStatus"
    /\ args.config = cfgHalf
    /\ ~env.certReadable
    /\ outcome = "SubscriptionManagerUnregisteredError"
    /\ calls = <<>>
    /\ connection = "userpass"

C8_InterruptedCheckIn ==
    [][(/\ op' = "hypervisorCheckIn"
        /\ CallsIn(calls', "hypervisorCheckIn") # <<>>
        /\ env.transport = "BadStatusLine")
        => /\ outcome' = "ManagerError"
           /\ result' = Value(None)
           /\ sink' = sink
           /\ nextJob' = nextJob]_vars

C8_Witness ==
    /\ op = "hypervisorCheckIn"
    /\ outcome = "ManagerError"
    /\ env.transport = "BadStatusLine"
    /\ env.async
    /\ manager_queue = Queue
    /\ Len(calls) = 4

C10_NoQueueNoFailure ==
    manager_queue = None
    => /\ sink = <<>>
       /\ (op = "hypervisorCheckIn" /\ outcome = "return")
             => result.value = CallsOf("hypervisorCheckIn")[1].ret
       /\ (/\ op = "checkJobStatus"
           /\ CallsOf("getJob") # <<>>
           /\ CallsOf("getJob")[1].ret.state # "FINISHED")
             => /\ outcome = "return"
                /\ result.value = CallsOf("getJob")[1].ret

====
